---- MODULE Spec2Model ----
(***************************************************************************)
(* Agent execution engine of qckfx: the conversation loop                  *)
(* (core/AgentRunner.ts, core/ModelClient.ts), the per-invocation state    *)
(* machine (server/services/ToolExecutionManagerImpl.ts), the service that *)
(* ties them to sessions, permissions, abort and events                    *)
(* (server/services/AgentService.ts) and the HTTP controller               *)
(* (server/controllers/api.ts).                                            *)
(*                                                                         *)
(* Every handler is a pure operator from a snapshot of the state (the      *)
(* record Cur) to the snapshot after the handler ran; an action commits    *)
(* the result of the handlers that run between two suspension points.      *)
(***************************************************************************)
EXTENDS Integers, Sequences, FiniteSets, TLC

\* ------------------------------------------------------------------ bounds
MaxTurns == 2
MaxToolUses == 1
MaxClock == 3
MaxExecutions == 2
MaxPermissions == 2
MaxEvents == 8

\* ------------------------------------------------------- program constants
maxIterations == 15

SessionIds == {"s1", "s2"}

\* socket ids of the clients of the WebSocketService
Observers == {"o1"}

\* ToolRegistry catalog: tool id -> requiresPermission
Catalog == {"glob", "file_write", "file_edit"}
UnknownTool == "frobnicate"
RequiresPermission(toolId) == toolId \in {"file_write", "file_edit"}

\* AgentServiceConfig as built by the constructor (interactive by default)
permissionMode == "interactive"
allowedTools == {"ReadTool", "GlobTool", "GrepTool", "LSTool"}
defaultConfig ==
  [permissionMode |-> permissionMode, allowedTools |-> allowedTools]

Terminal == {"COMPLETED", "ERROR", "ABORTED"}

\* sessionStorage.getItem answers null for a key that was never set
NoItem == 0

VARIABLES
  mgr,                          \* ToolExecutionManagerImpl maps
  statusChanges,                \* <<from, to>> of every status change so far
  events,                       \* events emitted by AgentService, in order
  activeProcessingSessionIds,   \* AgentService.activeProcessingSessionIds
  activeTools,                  \* AgentService.activeTools
  permissionRequests,           \* AgentService.permissionRequests
  isProcessing,                 \* Session.isProcessing
  conversationHistory,          \* Session.state.conversationHistory
  aborted,                      \* Session.state.__aborted
  abortedSessions,              \* sessionUtils.abortedSessions
  loops,                        \* in-flight and finished processQuery calls
  ids,                          \* next uuid / tool_use id to hand out
  env,                          \* what the environment may still do
  config,                       \* AgentService.config
  ws,                           \* WebSocketService rooms, messages per socket
  ui,                           \* browser: clock and sessionStorage
  persisted                     \* session data held by the persistence service

vars == << mgr, statusChanges, events, activeProcessingSessionIds, activeTools,
           permissionRequests, isProcessing, conversationHistory, aborted,
           abortedSessions, loops, ids, env, config, ws, ui, persisted >>

\* --------------------------------------------------------------- snapshots
Cur ==
  [ m    |-> mgr,
    sc   |-> statusChanges,
    ev   |-> events,
    aps  |-> activeProcessingSessionIds,
    at   |-> activeTools,
    pr   |-> permissionRequests,
    proc |-> isProcessing,
    hist |-> conversationHistory,
    ab   |-> aborted,
    reg  |-> abortedSessions,
    lp   |-> loops,
    ids  |-> ids,
    env  |-> env,
    cfg  |-> config,
    ws   |-> ws,
    ui   |-> ui,
    store |-> persisted,
    api  |-> [op |-> "none"] ]   \* reply of the operation to its caller

Commit(c) ==
  /\ mgr' = c.m
  /\ statusChanges' = c.sc
  /\ events' = c.ev
  /\ activeProcessingSessionIds' = c.aps
  /\ activeTools' = c.at
  /\ permissionRequests' = c.pr
  /\ isProcessing' = c.proc
  /\ conversationHistory' = c.hist
  /\ aborted' = c.ab
  /\ abortedSessions' = c.reg
  /\ loops' = c.lp
  /\ ids' = c.ids
  /\ env' = c.env
  /\ config' = c.cfg
  /\ ws' = c.ws
  /\ ui' = c.ui
  /\ persisted' = c.store

\* ------------------------------------------------- WebSocketService
\* a message on a socket; items are the permission ids of a snapshot, tool is
\* the tool id of a replayed execution
wsMessage(type, s, id, items, tool) ==
  [type |-> type, session |-> s, id |-> id, items |-> items, tool |-> tool]

\* socket.emit
toSocket(c, o, msg) == [c EXCEPT !.ws.inbox[o] = Append(@, msg)]

\* io.to(sessionId).emit: every socket that joined the room of the session
toRoom(c, s, msg) ==
  [c EXCEPT !.ws.inbox = [o \in Observers |->
                            IF s \in c.ws.rooms[o] THEN Append(@[o], msg)
                            ELSE @[o]]]

\* the listeners setupAgentEventListeners registers on the AgentService;
\* handlePermissionRequested and handlePermissionResolved send nothing when
\* the event names no execution the manager knows
wsListeners(c, event) ==
  LET s   == event.session
      msg == wsMessage(event.type, s, event.id, {}, "")
  IN IF event.type \in {"PROCESSING_STARTED", "PROCESSING_ERROR",
                        "PROCESSING_ABORTED"}
     THEN toRoom(c, s, msg)
     ELSE IF event.type = "PROCESSING_COMPLETED"
     THEN toRoom(toRoom(c, s, msg), s,
                 wsMessage("SESSION_UPDATED", s, 0, {}, ""))
     ELSE IF event.type \in {"PERMISSION_REQUESTED", "PERMISSION_RESOLVED"}
     THEN IF event.exec \in DOMAIN c.m.executions THEN toRoom(c, s, msg)
          ELSE c
     ELSE c

\* ------------------------------------------------------- AgentService.emit
\* payload of an event that names no execution and no decision
NoData == [exec |-> 0, granted |-> "none"]

\* EventEmitter.emit on the AgentService: listeners run synchronously, in order
emitWith(c, type, s, id, data) ==
  LET event == [type |-> type, session |-> s, id |-> id,
                exec |-> data.exec, granted |-> data.granted]
  IN wsListeners([c EXCEPT !.ev = Append(@, event)], event)

emit(c, type, s, id) == emitWith(c, type, s, id, NoData)

\* ------------------------------------------------------- sessionUtils.ts
isSessionAborted(c, s) == s \in c.reg

\* --------------------------------------------- ToolExecutionManagerImpl.ts
\* setupToolExecutionEventForwarding: manager event -> AgentService event
eventMap ==
  [ CREATED              |-> "TOOL_EXECUTION_STARTED",
    UPDATED              |-> "TOOL_EXECUTION",
    COMPLETED            |-> "TOOL_EXECUTION_COMPLETED",
    ERROR                |-> "TOOL_EXECUTION_ERROR",
    ABORTED              |-> "TOOL_EXECUTION_ABORTED",
    PERMISSION_REQUESTED |-> "PERMISSION_REQUESTED",
    PERMISSION_RESOLVED  |-> "PERMISSION_RESOLVED" ]

\* the listener of the AgentService on the manager: transformEventData, emit
emitEvent(c, event, s, id) ==
  IF event \in {"PERMISSION_REQUESTED", "PERMISSION_RESOLVED"}
  THEN LET permission == c.m.permissionRequests[id]
       IN emitWith(c, eventMap[event], s, id,
            [exec |-> permission.executionId,
             granted |-> IF event = "PERMISSION_REQUESTED" THEN "none"
                         ELSE IF permission.granted THEN "granted"
                         ELSE "denied"])
  ELSE emitWith(c, eventMap[event], s, id, [exec |-> id, granted |-> "none"])

hasExecution(c, executionId) == executionId \in DOMAIN c.m.executions

createExecution(c, sessionId, toolId) ==
  LET id == c.ids.exec
      execution == [ id |-> id, sessionId |-> sessionId, toolId |-> toolId,
                     status |-> "PENDING", summary |-> FALSE,
                     result |-> "none", error |-> "none" ]
      c1 == [c EXCEPT
               !.ids.exec = @ + 1,
               !.m.executions = (id :> execution) @@ @,
               !.m.sessionExecutions[sessionId] = @ \cup {id}]
  IN emitEvent(c1, "CREATED", sessionId, id)

\* createExecution of the manager variant that is handed the execution id
\* (the id derived from the tool_use id) by its caller
createExecutionWithId(c, sessionId, toolId, executionId) ==
  LET execution == [ id |-> executionId, sessionId |-> sessionId,
                     toolId |-> toolId, status |-> "PENDING",
                     summary |-> FALSE, result |-> "none", error |-> "none" ]
      c1 == [c EXCEPT
               !.m.executions = (executionId :> execution) @@ @,
               !.m.sessionExecutions[sessionId] = @ \cup {executionId}]
  IN emitEvent(c1, "CREATED", sessionId, executionId)

\* updates is a record holding the fields to overwrite
updateExecution(c, executionId, updates) ==
  LET execution == c.m.executions[executionId]
      updatedExecution == updates @@ execution
      c1 == [c EXCEPT !.m.executions[executionId] = updatedExecution,
                      !.sc = IF updatedExecution.status = execution.status
                             THEN @
                             ELSE @ \cup {<<execution.status,
                                            updatedExecution.status>>}]
  IN emitEvent(c1, "UPDATED", execution.sessionId, executionId)

updateStatus(c, executionId, status) ==
  updateExecution(c, executionId, [status |-> status])

startExecution(c, executionId) == updateStatus(c, executionId, "RUNNING")

\* completeExecution, had it left out the COMPLETED event
completeExecutionUnsignalled(c, executionId, result) ==
  updateExecution(c, executionId, [status |-> "COMPLETED", result |-> result])

completeExecution(c, executionId, result) ==
  LET c1 == updateExecution(c, executionId,
                            [status |-> "COMPLETED", result |-> result])
  IN emitEvent(c1, "COMPLETED", c.m.executions[executionId].sessionId,
               executionId)

\* completeExecution of the manager variant that generates the preview
\* itself: the status is set at once, the COMPLETED event waits for the
\* promise of generatePreviewForExecution
completeExecutionWithPreview(c, executionId, result) ==
  updateExecution(c, executionId, [status |-> "COMPLETED", result |-> result])

\* the then- and catch-callbacks of that promise both emit COMPLETED
previewSettled(c, executionId) ==
  emitEvent(c, "COMPLETED", c.m.executions[executionId].sessionId, executionId)

\* the preview was generated, its generation failed, or it is still pending
PreviewOutcomes == {"generated", "failed", "pending"}

afterPreview(c, executionId, outcome) ==
  IF outcome = "pending" THEN c ELSE previewSettled(c, executionId)

failExecution(c, executionId, error) ==
  LET c1 == updateExecution(c, executionId,
                            [status |-> "ERROR", error |-> error])
  IN emitEvent(c1, "ERROR", c.m.executions[executionId].sessionId,
               executionId)

abortExecution(c, executionId) ==
  LET c1 == updateExecution(c, executionId, [status |-> "ABORTED"])
  IN emitEvent(c1, "ABORTED", c.m.executions[executionId].sessionId,
               executionId)

\* requestPermission of the manager; the new permission id is c.ids.perm
mgrRequestPermission(c, executionId) ==
  LET execution == c.m.executions[executionId]
      id == c.ids.perm
      permissionRequest == [ id |-> id, sessionId |-> execution.sessionId,
                             toolId |-> execution.toolId,
                             executionId |-> executionId,
                             resolved |-> FALSE, granted |-> FALSE ]
      c1 == [c EXCEPT
               !.ids.perm = @ + 1,
               !.m.permissionRequests = (id :> permissionRequest) @@ @,
               !.m.sessionPermissions[execution.sessionId] = @ \cup {id},
               !.m.executionPermissions = (executionId :> id) @@ @]
      c2 == updateStatus(c1, executionId, "AWAITING_PERMISSION")
  IN emitEvent(c2, "PERMISSION_REQUESTED", execution.sessionId, id)

\* resolvePermission of the manager, had it left out the event
mgrResolvePermissionUnsignalled(c, permissionId, granted) ==
  LET permissionRequest == c.m.permissionRequests[permissionId]
      executionId == permissionRequest.executionId
      c1 == [c EXCEPT !.m.permissionRequests[permissionId] =
                 [permissionRequest EXCEPT !.resolved = TRUE,
                                           !.granted = granted]]
  IN IF granted THEN updateStatus(c1, executionId, "RUNNING")
                ELSE failExecution(c1, executionId, "Permission denied")

\* resolvePermission of the manager
mgrResolvePermission(c, permissionId, granted) ==
  LET permissionRequest == c.m.permissionRequests[permissionId]
      executionId == permissionRequest.executionId
      c1 == [c EXCEPT !.m.permissionRequests[permissionId] =
                 [permissionRequest EXCEPT !.resolved = TRUE,
                                           !.granted = granted]]
      c2 == IF granted THEN updateStatus(c1, executionId, "RUNNING")
                       ELSE failExecution(c1, executionId, "Permission denied")
  IN emitEvent(c2, "PERMISSION_RESOLVED", permissionRequest.sessionId,
               permissionId)

getExecutionsForSession(c, sessionId) ==
  { c.m.executions[id] :
      id \in c.m.sessionExecutions[sessionId] \cap DOMAIN c.m.executions }

getPermissionRequestForExecution(c, executionId) ==
  IF executionId \in DOMAIN c.m.executionPermissions
     /\ c.m.executionPermissions[executionId] \in DOMAIN c.m.permissionRequests
  THEN {c.m.permissionRequests[c.m.executionPermissions[executionId]]}
  ELSE {}

getPermissionRequestsForSession(c, sessionId) ==
  { c.m.permissionRequests[id] :
      id \in c.m.sessionPermissions[sessionId]
             \cap DOMAIN c.m.permissionRequests }

\* --------------------------------------- session data of the manager
\* persistence.loadSession answers null for a session that was never saved
NoSessionData == [saved |-> FALSE]

\* what saveSessionData hands to persistence.saveSession
saveSessionData(c, sessionId) ==
  [ saved |-> TRUE,
    toolExecutions |-> getExecutionsForSession(c, sessionId),
    permissionRequests |-> getPermissionRequestsForSession(c, sessionId) ]

\* clearSessionData, had it left the links of the executions in place
clearSessionDataKeepingLinks(c, sessionId) ==
  LET executionIds == c.m.sessionExecutions[sessionId]
      permissionIds == c.m.sessionPermissions[sessionId]
  IN [c EXCEPT
        !.m.executions = [e \in DOMAIN @ \ executionIds |-> @[e]],
        !.m.sessionExecutions[sessionId] = {},
        !.m.permissionRequests = [p \in DOMAIN @ \ permissionIds |-> @[p]],
        !.m.sessionPermissions[sessionId] = {}]

clearSessionData(c, sessionId) ==
  LET executionIds == c.m.sessionExecutions[sessionId]
      permissionIds == c.m.sessionPermissions[sessionId]
      linked == { c.m.permissionRequests[id].executionId :
                    id \in permissionIds \cap DOMAIN c.m.permissionRequests }
  IN [c EXCEPT
        !.m.executions = [e \in DOMAIN @ \ executionIds |-> @[e]],
        !.m.sessionExecutions[sessionId] = {},
        !.m.permissionRequests = [p \in DOMAIN @ \ permissionIds |-> @[p]],
        !.m.sessionPermissions[sessionId] = {},
        !.m.executionPermissions = [e \in DOMAIN @ \ linked |-> @[e]]]

\* the permissions are restored in the order they were requested, so of two
\* open requests of one execution the later one stays linked
restoredLinks(permissions) ==
  LET open == { p \in permissions : ~p.resolved }
      linkedExecutions == { p.executionId : p \in open }
  IN [e \in linkedExecutions |->
        LET ofExecution == { p.id : p \in { q \in open : q.executionId = e } }
        IN CHOOSE id \in ofExecution : \A other \in ofExecution : other <= id]

loadSessionData(c, sessionId, sessionData) ==
  IF ~sessionData.saved THEN c
  ELSE
    LET c1 == clearSessionData(c, sessionId)
        executions == sessionData.toolExecutions
        permissions == sessionData.permissionRequests
    IN [c1 EXCEPT
          !.m.executions =
             [id \in { e.id : e \in executions } |->
                CHOOSE e \in executions : e.id = id] @@ @,
          !.m.sessionExecutions[sessionId] = { e.id : e \in executions },
          !.m.permissionRequests =
             [id \in { p.id : p \in permissions } |->
                CHOOSE p \in permissions : p.id = id] @@ @,
          !.m.sessionPermissions[sessionId] = { p.id : p \in permissions },
          !.m.executionPermissions = restoredLinks(permissions) @@ @]

\* ------------------------------------------------------- AgentService.ts
\* activeTools.find(t => t.toolId === toolId), had it looked through the
\* tools of every session
findActiveToolOfAnySession(c, s, toolId) ==
  LET hits == { tool \in UNION { { c.at[t][i] : i \in 1..Len(c.at[t]) } :
                                   t \in SessionIds } :
                  tool.toolId = toolId }
  IN IF hits = {} THEN {}
     ELSE {CHOOSE tool \in hits :
             \A other \in hits : tool.executionId <= other.executionId}

\* activeTools.find(t => t.toolId === toolId): the first matching entry
findActiveTool(c, s, toolId) ==
  LET tools == c.at[s]
      hits == { i \in 1..Len(tools) : tools[i].toolId = toolId }
  IN IF hits = {} THEN {}
     ELSE {tools[CHOOSE i \in hits : \A j \in hits : i <= j]}

\* activeTools.filter(t => t.toolId !== toolId)
filterActiveTools(c, s, toolId) ==
  SelectSeq(c.at[s], LAMBDA t : t.toolId # toolId)

handleToolExecutionStart(c, toolId, s) ==
  LET id == c.ids.exec
      c1 == createExecution(c, s, toolId)
      c2 == updateExecution(c1, id, [summary |-> TRUE])
      c3 == startExecution(c2, id)
  IN [c3 EXCEPT !.at[s] = Append(@, [toolId |-> toolId, executionId |-> id])]

handleToolExecutionComplete(c, toolId, result, s) ==
  LET activeTool == findActiveTool(c, s, toolId)
  IN IF activeTool # {}
     THEN LET executionId == (CHOOSE t \in activeTool : TRUE).executionId
              c1 == completeExecution(c, executionId, result)
          IN [c1 EXCEPT !.at[s] = filterActiveTools(c1, s, toolId)]
     ELSE emit(c, "TOOL_EXECUTION_COMPLETED", s, 0)

handleToolExecutionError(c, toolId, error, s) ==
  LET activeTool == findActiveTool(c, s, toolId)
  IN IF activeTool # {}
     THEN LET executionId == (CHOOSE t \in activeTool : TRUE).executionId
              c1 == failExecution(c, executionId, error)
          IN [c1 EXCEPT !.at[s] = filterActiveTools(c1, s, toolId)]
     ELSE emit(c, "TOOL_EXECUTION_ERROR", s, 0)

\* ------------------------------------- listeners of the AgentService
\* what a listener registered with agentService.on does when it is called
ListenerBehaviours == {"returns", "throws"}

\* EventEmitter.emit calls the listeners of the event one after the other
\* on the stack of the emitter; the exception of a listener ends the call
\* and reaches the emitter. The index of the listener that ends it, or 0.
firstThrowing(listeners) ==
  LET throwing == { i \in 1..Len(listeners) : listeners[i] = "throws" }
  IN IF throwing = {} THEN 0
     ELSE CHOOSE i \in throwing : \A j \in throwing : i <= j

\* handleToolExecutionComplete while the given listeners are registered for
\* TOOL_EXECUTION_COMPLETED: an exception leaves completeExecution at its
\* emit and the handler at its call of completeExecution
handleToolExecutionCompleteObserved(c, toolId, result, s, listeners) ==
  LET thrower == firstThrowing(listeners)
      activeTool == findActiveTool(c, s, toolId)
  IN IF thrower = 0
     THEN [handleToolExecutionComplete(c, toolId, result, s)
             EXCEPT !.api = [op |-> "complete", thrown |-> FALSE,
                             called |-> 1..Len(listeners)]]
     ELSE LET c1 == IF activeTool # {}
                    THEN completeExecution(
                           c, (CHOOSE t \in activeTool : TRUE).executionId,
                           result)
                    ELSE emit(c, "TOOL_EXECUTION_COMPLETED", s, 0)
          IN [c1 EXCEPT !.api = [op |-> "complete", thrown |-> TRUE,
                                 called |-> 1..thrower]]

\* permissionUIHandler.requestPermission, interactive branch: the promise
\* it returns is pending until resolvePermission calls the stored resolver
requestPermissionInteractive(c, toolId, s, l) ==
  LET activeTool == findActiveTool(c, s, toolId)
      c1 == IF activeTool # {} THEN c
            ELSE LET e  == c.ids.exec
                     d1 == createExecution(c, s, toolId)
                     d2 == updateExecution(d1, e, [summary |-> TRUE])
                 IN [d2 EXCEPT !.at[s] =
                        Append(@, [toolId |-> toolId, executionId |-> e])]
      executionId == IF activeTool # {}
                     THEN (CHOOSE t \in activeTool : TRUE).executionId
                     ELSE c.ids.exec
      permissionId == c1.ids.perm
      c2 == mgrRequestPermission(c1, executionId)
  IN [c2 EXCEPT !.pr = (permissionId :>
                          [sessionId |-> s, toolId |-> toolId, resolver |-> l])
                       @@ @]

\* the first test of requestPermission, had it read the mode the wrong way
autoApprovedWrongMode(c, toolId) ==
  c.cfg.permissionMode # "auto" /\ toolId \in c.cfg.allowedTools

autoApproved(c, toolId) ==
  c.cfg.permissionMode = "auto" /\ toolId \in c.cfg.allowedTools

\* ------------------------------------------------- conversation history
userText(q)      == [role |-> "user", type |-> "text", id |-> 0, text |-> q]
assistantText    == [role |-> "assistant", type |-> "text", id |-> 0,
                     text |-> "answer"]
toolUse(id)      == [role |-> "assistant", type |-> "tool_use", id |-> id,
                     text |-> ""]
toolResult(id)   == [role |-> "user", type |-> "tool_result", id |-> id,
                     text |-> ""]

push(c, s, msg) == [c EXCEPT !.hist[s] = Append(@, msg)]

Absent == "absent"

\* ------------------------------ AgentService.processQuery, after the await
\* what runs once agent.processQuery has returned result, had the catch
\* blocks left the processing flag of the session alone
serviceAfterAgentKeepingFlag(c, s, l, result) ==
  LET c0 == [c EXCEPT !.lp[s][l].result = result]
  IN IF result.error # Absent
     THEN LET c2 == emit(c0, "PROCESSING_ERROR", s, l)
              c3 == [c2 EXCEPT !.aps = @ \ {s}]
              c4 == emit(c3, "PROCESSING_ERROR", s, l)
          IN [c4 EXCEPT !.lp[s][l].pc = "done",
                        !.lp[s][l].promise = "rejected"]
     ELSE LET c1 == [c0 EXCEPT !.proc[s] = FALSE]
              c2 == emit(c1, "PROCESSING_COMPLETED", s, l)
          IN [c2 EXCEPT !.lp[s][l].pc = "save"]

\* what runs once agent.processQuery has returned result
serviceAfterAgent(c, s, l, result) ==
  LET c0 == [c EXCEPT !.lp[s][l].result = result]
  IN IF result.error # Absent
     THEN \* throw ServerError: inner catch, finally, outer catch
          LET c1 == [c0 EXCEPT !.proc[s] = FALSE]
              c2 == emit(c1, "PROCESSING_ERROR", s, l)
              c3 == [c2 EXCEPT !.aps = @ \ {s}]
              c4 == emit(c3, "PROCESSING_ERROR", s, l)
          IN [c4 EXCEPT !.lp[s][l].pc = "done",
                        !.lp[s][l].promise = "rejected"]
     ELSE LET c1 == [c0 EXCEPT !.proc[s] = FALSE]
              c2 == emit(c1, "PROCESSING_COMPLETED", s, l)
          IN [c2 EXCEPT !.lp[s][l].pc = "save"]

\* ------------------------------------------- AgentRunner.processQuery
\* the outer catch, had it also filled in an empty response
runnerReturnErrorWithResponse(c, s, l, message) ==
  serviceAfterAgent(c, s, l,
    [response |-> "", error |-> message, aborted |-> Absent])

\* the outer catch: return { error, sessionState, done }
runnerReturnError(c, s, l, message) ==
  serviceAfterAgent(c, s, l,
    [response |-> Absent, error |-> message, aborted |-> Absent])

\* lines 220-245: append the answer, extract its text, return the result
runnerFinish(c, s, l, finalResponse) ==
  LET c1 == IF finalResponse = "text" THEN push(c, s, assistantText) ELSE c
      responseText == IF finalResponse = "text" THEN "answer" ELSE ""
  IN serviceAfterAgent(c1, s, l,
       [response |-> responseText, error |-> Absent, aborted |-> Absent])

\* modelClient.generateResponse up to its await of the provider
callGenerateResponse(c, s, l) ==
  [c EXCEPT !.lp[s][l].pc = "gen",
            !.lp[s][l].nGen = @ + 1,
            !.lp[s][l].afterAbort = @ \/ c.lp[s][l].abortSeen]

\* the catch of one iteration, had it always rethrown
runnerIterationCatchRethrows(c, s, l, message) ==
  runnerReturnError([c EXCEPT !.lp[s][l].caught = message], s, l, message)

\* the catch of one iteration (lines 188-206)
runnerIterationCatch(c, s, l, message) ==
  LET c1 == [c EXCEPT !.lp[s][l].caught = message]
  IN IF Len(c.lp[s][l].toolResults) > 0
     THEN callGenerateResponse(c1, s, l)
     ELSE runnerReturnError(c1, s, l, message)

\* the loop head, had it tested iterations <= maxIterations
runnerLoopHeadInclusive(c, s, l) ==
  IF c.lp[s][l].iterations <= maxIterations
  THEN [c EXCEPT !.lp[s][l].iterations = @ + 1,
                 !.lp[s][l].pc = "model",
                 !.lp[s][l].nGet = @ + 1,
                 !.lp[s][l].afterAbort = @ \/ c.lp[s][l].abortSeen]
  ELSE callGenerateResponse(c, s, l)

\* the loop head (line 83) up to the await inside modelClient.getToolCall,
\* or, when the ceiling is reached, the forced final call (lines 209-218)
runnerLoopHead(c, s, l) ==
  IF c.lp[s][l].iterations < maxIterations
  THEN [c EXCEPT !.lp[s][l].iterations = @ + 1,
                 !.lp[s][l].pc = "model",
                 !.lp[s][l].nGet = @ + 1,
                 !.lp[s][l].afterAbort = @ \/ c.lp[s][l].abortSeen]
  ELSE callGenerateResponse(c, s, l)

\* lines 161-187: a tool returned its result
runnerToolReturned(c, s, l) ==
  LET toolCall == c.lp[s][l].toolCall
      c1 == IF toolCall.toolUseId # 0
            THEN push(c, s, toolResult(toolCall.toolUseId)) ELSE c
      c2 == [c1 EXCEPT !.lp[s][l].toolResults = Append(@, toolCall.toolUseId)]
  IN runnerLoopHead(c2, s, l)

\* tool.execute threw, had the catch no branch for validation errors
runnerToolThrewNoRecovery(c, s, l, message) ==
  runnerIterationCatch(c, s, l, message)

\* lines 125-159: tool.execute threw
runnerToolThrew(c, s, l, message) ==
  IF message = "Invalid args"
  THEN LET id == c.lp[s][l].toolCall.toolUseId
           c1 == [c EXCEPT !.lp[s][l].invalidArgs = @ \cup {id}]
       IN runnerLoopHead(push(c1, s, toolResult(id)), s, l)
  ELSE runnerIterationCatch(c, s, l, message)

\* --------------------------------------- tool invocation (tool.execute)
\* The registry's wrapper of a tool: start callback, argument validation,
\* the permission check and then the operation itself.
toolExecute(c, s, l) ==
  LET toolCall == c.lp[s][l].toolCall
      c0 == [c EXCEPT !.lp[s][l].afterAbort = @ \/ c.lp[s][l].abortSeen,
                      !.lp[s][l].requested = Append(@, toolCall.toolUseId)]
      c1 == handleToolExecutionStart(c0, toolCall.toolId, s)
  IN IF toolCall.args = "bad"
     THEN runnerToolThrew(
            handleToolExecutionError(c1, toolCall.toolId, "Invalid args", s),
            s, l, "Invalid args")
     ELSE IF RequiresPermission(toolCall.toolId)
             /\ ~autoApproved(c1, toolCall.toolId)
     THEN [requestPermissionInteractive(c1, toolCall.toolId, s, l)
             EXCEPT !.lp[s][l].pc = "perm"]
     ELSE [c1 EXCEPT !.lp[s][l].pc = "tool"]

\* the permission promise settled: the invocation resumes
toolPermissionSettled(c, s, l, granted) ==
  IF granted
  THEN [c EXCEPT !.lp[s][l].pc = "tool"]
  ELSE runnerToolThrew(
         handleToolExecutionError(c, c.lp[s][l].toolCall.toolId,
                                  "Permission denied", s),
         s, l, "Permission denied")

\* the operation of the tool settled
toolOperationSettled(c, s, l, ok) ==
  LET toolId == c.lp[s][l].toolCall.toolId
  IN IF ok
     THEN runnerToolReturned(handleToolExecutionComplete(c, toolId, "ok", s),
                             s, l)
     ELSE runnerToolThrew(handleToolExecutionError(c, toolId, "Tool failed", s),
                          s, l, "Tool failed")

\* ------------------------------------ ModelClient.getToolCall, after await
\* reply = [kind |-> "final", content |-> "text" | "empty"]
\*       | [kind |-> "tool", toolId |-> ..., args |-> "good" | "bad"]
\*       | [kind |-> "throw"]
getToolCallReturned(c, s, l, reply) ==
  IF reply.kind = "throw"
  THEN runnerIterationCatch(c, s, l, "Provider error")
  ELSE IF reply.kind = "final"
  THEN runnerFinish(c, s, l, reply.content)
  ELSE LET id == c.ids.use
           c1 == [c EXCEPT !.ids.use = @ + 1]
           c2 == IF ~isSessionAborted(c1, s) THEN push(c1, s, toolUse(id))
                 ELSE c1
           c3 == [c2 EXCEPT !.lp[s][l].toolCall =
                    [toolId |-> reply.toolId, args |-> reply.args,
                     toolUseId |-> id]]
       IN IF reply.toolId \notin Catalog
          THEN runnerIterationCatch(c3, s, l, "Tool not found")
          ELSE toolExecute(c3, s, l)

\* -------------------------------------------------------------- actions
newLoop(q) ==
  [ pc |-> "start", query |-> q, iterations |-> 0, toolResults |-> << >>,
    requested |-> << >>,
    toolCall |-> [toolId |-> "", args |-> "", toolUseId |-> 0],
    nGet |-> 0, nGen |-> 0, abortSeen |-> FALSE, afterAbort |-> FALSE,
    caught |-> "none", invalidArgs |-> {},
    result |-> [response |-> Absent, error |-> Absent, aborted |-> Absent],
    promise |-> "pending" ]

\* agent.processQuery in flight: awaiting the model, a permission or a tool
InFlightPcs == {"model", "perm", "tool", "gen"}
InFlight(s) == { l \in 1..Len(loops[s]) : loops[s][l].pc \in InFlightPcs }

\* AgentService.processQuery up to its first await
processQuery(c, s) ==
  IF c.proc[s] \/ s \in c.aps
  THEN [c EXCEPT !.api = [thrown |-> "AgentBusyError"]]
  ELSE LET l  == Len(c.lp[s]) + 1
           c1 == [c EXCEPT !.aps = @ \cup {s},
                           !.proc[s] = TRUE,
                           !.lp[s] = Append(@, newLoop("q")),
                           !.api = [thrown |-> "none"]]
           c2 == emit(c1, "PROCESSING_STARTED", s, l)
           h  == c2.hist[s]
           c3 == IF Len(h) = 0 \/ h[Len(h)].role # "user"
                 THEN push(c2, s, userText("q")) ELSE c2
       IN runnerLoopHead(c3, s, l)

\* api.submitQuery: start processing in the background, log a rejection,
\* answer 202 at once
submitQuery(c, s) ==
  LET c1 == processQuery(c, s)
  IN [c1 EXCEPT !.api = [op |-> "submitQuery", status |-> 202,
                         accepted |-> TRUE, logged |-> c1.api.thrown]]

SubmitQueryBusy(s) ==
  /\ isProcessing[s] \/ s \in activeProcessingSessionIds
  /\ Commit(submitQuery(Cur, s))

SubmitQueryAccepted(s) ==
  /\ s \in env.sessions
  /\ ~(isProcessing[s] \/ s \in activeProcessingSessionIds)
  /\ env.turns > 0
  /\ Commit(submitQuery([Cur EXCEPT !.env.turns = @ - 1], s))

SubmitQuery(s) == SubmitQueryBusy(s) \/ SubmitQueryAccepted(s)

\* the tool calls the model may ask for: a catalog tool with arguments that
\* pass or fail validation, or a tool the catalog does not have
ModelToolCalls ==
  (Catalog \X {"good"}) \cup {<<"glob", "bad">>, <<UnknownTool, "good">>}

\* what the model may answer to getToolCall
ModelReplies(s, l) ==
  /\ l \in 1..Len(loops[s])
  /\ loops[s][l].pc = "model"
  /\ \/ Commit(getToolCallReturned(Cur, s, l,
                 [kind |-> "final", content |-> "text"]))
     \/ Commit(getToolCallReturned(Cur, s, l, [kind |-> "throw"]))
     \/ /\ env.uses > 0
        /\ \E call \in ModelToolCalls :
             Commit(getToolCallReturned(
                      [Cur EXCEPT !.env.uses = @ - 1], s, l,
                      [kind |-> "tool", toolId |-> call[1], args |-> call[2]]))
     \/ /\ env.uses = 0
        /\ env.after = "loop"
        /\ Commit(getToolCallReturned(Cur, s, l,
                    [kind |-> "tool", toolId |-> "glob", args |-> "good"]))

\* the provider answered generateResponse
GenerateResponseReturns(s, l) ==
  /\ l \in 1..Len(loops[s])
  /\ loops[s][l].pc = "gen"
  /\ \/ Commit(runnerFinish(Cur, s, l, "text"))
     \/ Commit(runnerReturnError(Cur, s, l, "Provider error"))

\* the operation of the running tool finished
ToolSettles(s, l) ==
  /\ l \in 1..Len(loops[s])
  /\ loops[s][l].pc = "tool"
  /\ \E ok \in BOOLEAN : Commit(toolOperationSettled(Cur, s, l, ok))

\* saveToolState finished: return, then the finally block
SaveToolStateDone(s, l) ==
  /\ l \in 1..Len(loops[s])
  /\ loops[s][l].pc = "save"
  /\ Commit([Cur EXCEPT !.lp[s][l].pc = "done",
                        !.lp[s][l].promise = "resolved",
                        !.aps = @ \ {s}])

\* AgentService.resolvePermission, then the continuation of the invocation
\* whose resolver was called
resolvePermission(c, permissionId, granted) ==
  IF permissionId \notin DOMAIN c.pr
  THEN [c EXCEPT !.api = [op |-> "resolvePermission", id |-> permissionId,
                          result |-> FALSE]]
  ELSE
    LET request == c.pr[permissionId]
        s  == request.sessionId
        c1 == [c EXCEPT !.pr = [p \in DOMAIN @ \ {permissionId} |-> @[p]],
                        !.api = [op |-> "resolvePermission",
                                 id |-> permissionId, result |-> TRUE]]
        activeTool == findActiveTool(c1, s, request.toolId)
        awaiting == { e \in getExecutionsForSession(c1, s) :
                        e.status = "AWAITING_PERMISSION" }
        matching == { p \in UNION { getPermissionRequestForExecution(c1, e.id) :
                                      e \in awaiting } : p.id = permissionId }
        c2 == IF activeTool # {} /\ matching # {}
              THEN mgrResolvePermission(c1, permissionId, granted)
              ELSE emitWith(c1, "PERMISSION_RESOLVED", s, permissionId,
                            [exec |-> 0,
                             granted |-> IF granted THEN "granted"
                                         ELSE "denied"])
    IN toolPermissionSettled(c2, s, request.resolver, granted)

ResolvePermission ==
  \E permissionId \in 1..(ids.perm - 1), granted \in BOOLEAN :
    Commit(resolvePermission(Cur, permissionId, granted))

\* AgentService.abortOperation
RECURSIVE abortActiveTools(_, _, _)
abortActiveTools(c, tools, s) ==
  IF tools = << >> THEN c
  ELSE LET tool == Head(tools)
           c1 == IF hasExecution(c, tool.executionId)
                 THEN abortExecution(c, tool.executionId)
                 ELSE emit(c, "TOOL_EXECUTION_ABORTED", s, tool.executionId)
       IN abortActiveTools(c1, Tail(tools), s)

abortOperation(c, s) ==
  IF ~c.proc[s] /\ s \notin c.aps
  THEN [c EXCEPT !.api = [op |-> "abort", session |-> s, result |-> FALSE]]
  ELSE
    LET tools == c.at[s]
        c1 == [c EXCEPT !.ab[s] = TRUE,
                        !.proc[s] = FALSE,
                        !.aps = @ \ {s},
                        !.lp[s] = [l \in DOMAIN @ |->
                                     IF @[l].pc \in InFlightPcs
                                     THEN [@[l] EXCEPT !.abortSeen = TRUE]
                                     ELSE @[l]],
                        !.api = [op |-> "abort", session |-> s,
                                 result |-> TRUE]]
        c2 == emit(c1, "PROCESSING_ABORTED", s, 0)
    IN abortActiveTools(c2, tools, s)

AbortOperation(s) ==
  /\ s \in env.sessions
  /\ Commit(abortOperation(Cur, s))

\* ----------------------------------- ui/context/WebSocketTerminalContext
getAbortTimestamp(c, sessionId) == c.ui.abortTimestamp[sessionId]

\* the comparison of isEventAfterAbort, had it been written the other way
isEventAfterAbortReversed(c, sessionId, timestamp) ==
  LET abortTimestamp == getAbortTimestamp(c, sessionId)
  IN IF abortTimestamp = NoItem THEN FALSE ELSE timestamp < abortTimestamp

isEventAfterAbort(c, sessionId, timestamp) ==
  LET abortTimestamp == getAbortTimestamp(c, sessionId)
  IN IF abortTimestamp = NoItem THEN FALSE ELSE timestamp > abortTimestamp

\* toolVisualization.activeTools: the tools the browser shows as running
uiActiveTools(c, s) == c.at[s]

\* abortProcessing up to its await: the time of the abort and the active
\* tools are taken before the request is sent
abortProcessingSent(c, s) ==
  [c EXCEPT !.ui.pending =
     Append(@, [session |-> s, abortTimestamp |-> c.ui.now,
                activeTools |-> Len(uiActiveTools(c, s))])]

\* api.abortOperation runs, then abortProcessing continues with its answer
abortProcessingAnswered(c) ==
  LET call == Head(c.ui.pending)
      c1 == abortOperation(c, call.session)
      c2 == [c1 EXCEPT !.ui.pending = Tail(@)]
  IN IF c1.api.result /\ call.activeTools > 0
     THEN [c2 EXCEPT !.ui.abortTimestamp[call.session] = call.abortTimestamp]
     ELSE c2

\* an observer of the session is handed an event: it drops the event when
\* an abort time is stored and the event is not after it
observerHandles(c, s, timestamp) ==
  LET stored == getAbortTimestamp(c, s)
      stale == stored # NoItem /\ ~isEventAfterAbort(c, s, timestamp)
  IN [c EXCEPT !.ui.handled =
        << [session |-> s, timestamp |-> timestamp,
            abortTimestamp |-> stored, suppressed |-> stale] >>]

AbortProcessing(s) ==
  /\ s \in env.sessions
  /\ ui.pending = << >>
  /\ Commit(abortProcessingSent(Cur, s))

AbortAnswered ==
  /\ ui.pending # << >>
  /\ Commit(abortProcessingAnswered(Cur))

\* an event of session s, stamped by its producer, reaches the observer
EventArrives(s, timestamp) ==
  /\ \E k \in 1..Len(events) : events[k].session = s
  /\ Commit(observerHandles(Cur, s, timestamp))

\* Date.now() of the browser moves on
Tick ==
  /\ ui.now < MaxClock
  /\ Commit([Cur EXCEPT !.ui.now = @ + 1])

\* ------------------------------------- WebSocketService, JOIN_SESSION
\* AgentService.getPermissionRequests: the ids of the pending requests
getPermissionRequests(c, s) ==
  { p \in DOMAIN c.pr : c.pr[p].sessionId = s }

\* WebSocketService.getActiveTools reads the map activeTools of the
\* WebSocketService, to which no entry is ever added
wsActiveTools(c, s) == << >>

RECURSIVE sendActiveTools(_, _, _, _)
sendActiveTools(c, o, s, tools) ==
  IF tools = << >> THEN c
  ELSE sendActiveTools(
         toSocket(c, o, wsMessage("TOOL_EXECUTION_STARTED", s, 0, {},
                                Head(tools).toolId)),
         o, s, Tail(tools))

\* the JOIN_SESSION handler for a session the session manager holds
joinSession(c, o, s) ==
  LET c1 == [c EXCEPT !.ws.rooms[o] = @ \cup {s}]
      c2 == toSocket(c1, o, wsMessage("SESSION_UPDATED", s, 0, {}, ""))
      c3 == toSocket(c2, o, wsMessage("init", s, 0, {}, ""))
      pendingPermissions == getPermissionRequests(c3, s)
      c4 == IF pendingPermissions # {}
            THEN toSocket(c3, o, wsMessage("PERMISSION_REQUESTED", s, 0,
                                         pendingPermissions, ""))
            ELSE c3
  IN sendActiveTools(c4, o, s, wsActiveTools(c4, s))

JoinSession(o, s) ==
  /\ env.joins > 0
  /\ s \in env.sessions
  /\ s \notin ws.rooms[o]
  /\ Commit(joinSession([Cur EXCEPT !.env.joins = @ - 1], o, s))

\* ------------------------------ the manager driven operation by operation
\* deleteSessionData: the memory first, then the persisted data
deleteSessionData(c, sessionId) ==
  [clearSessionData(c, sessionId) EXCEPT !.store[sessionId] = NoSessionData]

MgrCreateExecution(s, toolId) ==
  /\ ids.exec <= MaxExecutions
  /\ Commit(createExecution(Cur, s, toolId))

MgrRequestPermission(executionId) ==
  /\ executionId \in DOMAIN mgr.executions
  /\ ids.perm <= MaxPermissions
  /\ Commit(mgrRequestPermission(Cur, executionId))

MgrResolvePermission(permissionId, granted) ==
  /\ permissionId \in DOMAIN mgr.permissionRequests
  /\ Len(events) < MaxEvents
  /\ Commit(mgrResolvePermission(Cur, permissionId, granted))

MgrSaveSessionData(s) ==
  Commit([Cur EXCEPT !.store[s] = saveSessionData(Cur, s)])

MgrLoadSessionData(s) == Commit(loadSessionData(Cur, s, persisted[s]))

MgrClearSessionData(s) == Commit(clearSessionData(Cur, s))

MgrDeleteSessionData(s) == Commit(deleteSessionData(Cur, s))

\* ---------------------------------------------------------- specification
initState(sessions, turns, uses, after, joins, cfg) ==
  /\ mgr = [ executions |-> << >>,
             sessionExecutions |-> [s \in SessionIds |-> {}],
             permissionRequests |-> << >>,
             sessionPermissions |-> [s \in SessionIds |-> {}],
             executionPermissions |-> << >> ]
  /\ statusChanges = {}
  /\ events = << >>
  /\ activeProcessingSessionIds = {}
  /\ activeTools = [s \in SessionIds |-> << >>]
  /\ permissionRequests = << >>
  /\ isProcessing = [s \in SessionIds |-> FALSE]
  /\ conversationHistory = [s \in SessionIds |-> << >>]
  /\ aborted = [s \in SessionIds |-> FALSE]
  /\ abortedSessions = {}
  /\ loops = [s \in SessionIds |-> << >>]
  /\ ids = [use |-> 1, exec |-> 1, perm |-> 1]
  /\ env = [sessions |-> sessions, turns |-> turns, uses |-> uses,
            after |-> after, joins |-> joins]
  /\ config = cfg
  /\ ws = [ rooms |-> [o \in Observers |-> {}],
            inbox |-> [o \in Observers |-> << >>] ]
  /\ ui = [ now |-> 1,
            abortTimestamp |-> [s \in SessionIds |-> NoItem],
            pending |-> << >>,
            handled |-> << >> ]
  /\ persisted = [s \in SessionIds |-> NoSessionData]

Init == initState({"s1"}, MaxTurns, MaxToolUses, "stop", 0, defaultConfig)

Next ==
  \E s \in SessionIds :
    \/ SubmitQuery(s)
    \/ AbortOperation(s)
    \/ ResolvePermission
    \/ \E l \in 1..MaxTurns :
         \/ ModelReplies(s, l)
         \/ GenerateResponseReturns(s, l)
         \/ ToolSettles(s, l)
         \/ SaveToolStateDone(s, l)

Spec == Init /\ [][Next]_vars

\* one turn against a model that, once its free choices are used up, asks for
\* a tool on every call
InitCeiling == initState({"s1"}, 1, MaxToolUses, "loop", 0, defaultConfig)

SpecCeiling == InitCeiling /\ [][Next]_vars

\* the provider, the tools and the file system answer every call; users are
\* free never to submit, abort or resolve anything
Fairness ==
  /\ WF_vars(\E s \in SessionIds : \E l \in 1..MaxTurns : ModelReplies(s, l))
  /\ WF_vars(\E s \in SessionIds : \E l \in 1..MaxTurns :
               GenerateResponseReturns(s, l))
  /\ WF_vars(\E s \in SessionIds : \E l \in 1..MaxTurns : ToolSettles(s, l))
  /\ WF_vars(\E s \in SessionIds : \E l \in 1..MaxTurns :
               SaveToolStateDone(s, l))

SpecLive == Init /\ [][Next]_vars /\ Fairness

\* one turn in which the model may ask for one more tool
InitTurn == initState({"s1"}, 1, MaxToolUses + 1, "stop", 0, defaultConfig)

SpecTurn == InitTurn /\ [][Next]_vars

\* a service configured for automatic mode with file_write on its allow-list
autoConfig == [permissionMode |-> "auto", allowedTools |-> {"file_write"}]

\* two turns, so that an aborted turn can overlap the one that follows it
InitAuto == initState({"s1"}, 2, MaxToolUses, "stop", 0, autoConfig)

SpecAuto == InitAuto /\ [][Next]_vars

\* two sessions side by side: two turns and one tool call between them
InitTwo == initState(SessionIds, 2, 1, "stop", 0, defaultConfig)

SpecTwo == InitTwo /\ [][Next]_vars

\* the manager alone, its operations called in any order for two sessions
NextMgr ==
  \/ \E s \in SessionIds :
       \/ MgrCreateExecution(s, "glob")
       \/ MgrSaveSessionData(s)
       \/ MgrLoadSessionData(s)
       \/ MgrClearSessionData(s)
       \/ MgrDeleteSessionData(s)
  \/ \E executionId \in 1..MaxExecutions : MgrRequestPermission(executionId)
  \/ \E permissionId \in 1..MaxPermissions, granted \in BOOLEAN :
       MgrResolvePermission(permissionId, granted)

InitMgr == initState(SessionIds, 0, 0, "stop", 0, defaultConfig)

SpecMgr == InitMgr /\ [][NextMgr]_vars

\* the browser next to the service: one turn, aborts sent by the terminal
NextUi ==
  \/ Next
  \/ \E s \in SessionIds : AbortProcessing(s)
  \/ AbortAnswered
  \/ \E s \in SessionIds : \E timestamp \in 1..MaxClock :
       EventArrives(s, timestamp)
  \/ Tick

InitUi == initState({"s1"}, 1, 1, "stop", 0, defaultConfig)

SpecUi == InitUi /\ [][NextUi]_vars

\* a client that joins the session at some point of its turns
NextJoin ==
  \/ Next
  \/ \E o \in Observers : \E s \in SessionIds : JoinSession(o, s)

InitJoin == initState({"s1"}, MaxTurns, MaxToolUses, "stop", 1, defaultConfig)

SpecJoin == InitJoin /\ [][NextJoin]_vars

\* ------------------------------------------------------------- properties
Loop(s, l) == loops[s][l]
LoopIds(s) == 1..Len(loops[s])

\* C1: in every session's history, every tool_use part is followed, before
\* the next free-text message, by a tool_result part with the same id, and
\* no id has more than one tool_result.
C1_ToolUsePaired ==
  \A s \in SessionIds :
    LET h == conversationHistory[s]
        resultsOf(id, from, to) ==
          { k \in from..to : h[k].type = "tool_result" /\ h[k].id = id }
    IN \A i \in 1..Len(h) :
         h[i].type = "tool_use" =>
           /\ Cardinality(resultsOf(h[i].id, 1, Len(h))) <= 1
           /\ \A j \in (i + 1)..Len(h) :
                h[j].type = "text" => resultsOf(h[i].id, i + 1, j - 1) # {}

\* C2: no execution ever changed its status away from COMPLETED, ERROR or
\* ABORTED.
C2_TerminalIsFinal ==
  \A change \in statusChanges : change[1] \notin Terminal

\* C3: a session never has two agent.processQuery calls in flight.
C3_OneActiveLoop ==
  \A s \in SessionIds : Cardinality(InFlight(s)) <= 1

\* C4: submitQuery for a session that is processing answers its caller with
\* a rejection, starts no loop and emits no event.
C4_BusyRejected ==
  \A s \in SessionIds :
    (isProcessing[s] \/ s \in activeProcessingSessionIds) =>
      LET c == submitQuery(Cur, s)
      IN /\ c.lp = loops
         /\ c.ev = events
         /\ c.api.status # 202
         /\ ~c.api.accepted

C6_IterationCeiling ==
  \A s \in SessionIds : \A l \in LoopIds(s) :
    LET lp == Loop(s, l)
    IN /\ lp.iterations <= 15
       /\ lp.nGet = lp.iterations
       /\ lp.nGen <= 1
       /\ lp.nGen = 1 => lp.pc \in {"gen", "save", "done"}

\* the model asked for a tool on all 15 calls, the forced call was made and
\* the turn returned
C6_Witness ==
  \E s \in SessionIds : \E l \in LoopIds(s) :
    /\ Loop(s, l).iterations = 15
    /\ Len(Loop(s, l).requested) = 15
    /\ Loop(s, l).nGen = 1
    /\ Loop(s, l).pc = "done"

\* C7: a loop whose session was aborted while it was in flight makes no
\* further model call or tool invocation and returns an aborted result.
C7_AbortStopsLoop ==
  \A s \in SessionIds : \A l \in LoopIds(s) :
    Loop(s, l).abortSeen =>
      /\ ~Loop(s, l).afterAbort
      /\ Loop(s, l).pc \in {"save", "done"} =>
           Loop(s, l).result.aborted # Absent

\* C8: an abort leaves every active tool's execution ABORTED, and an
\* execution that is ABORTED stays ABORTED and gets no
\* TOOL_EXECUTION_COMPLETED event.
C8_AbortedStaysAborted ==
  [][ /\ \A s \in SessionIds :
           (Len(events') > Len(events)
            /\ events'[Len(events) + 1].type = "PROCESSING_ABORTED"
            /\ events'[Len(events) + 1].session = s) =>
             \A i \in 1..Len(activeTools[s]) :
               mgr'.executions[activeTools[s][i].executionId].status
                 = "ABORTED"
      /\ \A e \in DOMAIN mgr.executions :
           mgr.executions[e].status = "ABORTED" =>
             /\ mgr'.executions[e].status = "ABORTED"
             /\ \A k \in (Len(events) + 1)..Len(events') :
                  ~(/\ events'[k].type = "TOOL_EXECUTION_COMPLETED"
                    /\ events'[k].id = e) ]_vars

\* C9: every status change of an execution is an edge of the declared graph.
C9_DeclaredGraphOnly ==
  LET DeclaredGraph ==
      { <<"PENDING", "RUNNING">>,
        <<"RUNNING", "AWAITING_PERMISSION">>,
        <<"RUNNING", "COMPLETED">>,
        <<"RUNNING", "ERROR">>,
        <<"AWAITING_PERMISSION", "RUNNING">>,
        <<"AWAITING_PERMISSION", "ERROR">>,
        <<"PENDING", "ABORTED">>,
        <<"RUNNING", "ABORTED">>,
        <<"AWAITING_PERMISSION", "ABORTED">> }
  IN statusChanges \subseteq DeclaredGraph

\* C10: resolvePermission on a permission id that is already resolved
\* changes nothing, neither through the service (which reports false) nor
\* through the execution manager.
C10_SecondResolveNoEffect ==
  \A p \in DOMAIN mgr.permissionRequests :
    mgr.permissionRequests[p].resolved =>
      \A granted \in BOOLEAN :
        /\ LET c == resolvePermission(Cur, p, granted)
           IN c.api.result = FALSE /\ [c EXCEPT !.api = Cur.api] = Cur
        /\ LET c == mgrResolvePermission(Cur, p, granted)
           IN c.m = mgr /\ c.ev = events /\ c.sc = statusChanges

\* C11: a loop whose model asked for a tool the catalog does not have ends
\* at once with the error "Tool not found", without a further model call.
C11_UnknownToolFailsTurn ==
  \A s \in SessionIds : \A l \in LoopIds(s) :
    Loop(s, l).caught = "Tool not found" =>
      /\ Loop(s, l).pc = "done"
      /\ Loop(s, l).result.error = "Tool not found"
      /\ Loop(s, l).nGen = 0

AtGate(s, l) == l \in LoopIds(s) /\ Loop(s, l).pc = "perm"

\* the session was aborted while loop l waited at the gate: the execution
\* of its pending permission request is ABORTED
GateAborted(s, l) ==
  /\ AtGate(s, l)
  /\ \E p \in DOMAIN permissionRequests :
       /\ permissionRequests[p].sessionId = s
       /\ permissionRequests[p].resolver = l
       /\ mgr.executions[mgr.permissionRequests[p].executionId].status
            = "ABORTED"

\* C14: an invocation that waits at the permission gate when its session
\* is aborted is eventually released.
C14_AbortReleasesGate ==
  \A s \in SessionIds : \A l \in 1..MaxTurns :
    GateAborted(s, l) ~> ~AtGate(s, l)

\* C15: in automatic mode a tool on the allow-list never waits at the gate,
\* never gets a permission request in the manager (so it never was
\* AWAITING_PERMISSION) and no PERMISSION_REQUESTED event names it.
C15_AutoApprovalBypassesGate ==
  config.permissionMode = "auto" =>
    /\ \A p \in DOMAIN mgr.permissionRequests :
         mgr.permissionRequests[p].toolId \notin config.allowedTools
    /\ \A e \in DOMAIN mgr.executionPermissions :
         mgr.executions[e].toolId \notin config.allowedTools
    /\ \A e \in DOMAIN mgr.executions :
         mgr.executions[e].toolId \in config.allowedTools =>
           mgr.executions[e].status # "AWAITING_PERMISSION"
    /\ \A k \in 1..Len(events) :
         events[k].type = "PERMISSION_REQUESTED" =>
           mgr.permissionRequests[events[k].id].toolId
             \notin config.allowedTools
    /\ \A s \in SessionIds : \A l \in LoopIds(s) :
         AtGate(s, l) => Loop(s, l).toolCall.toolId \notin config.allowedTools

\* in automatic mode a file_write ran to completion
C15_Witness ==
  /\ config.permissionMode = "auto"
  /\ \E e \in DOMAIN mgr.executions :
       /\ mgr.executions[e].toolId = "file_write"
       /\ mgr.executions[e].status = "COMPLETED"

\* C16: requestPermission of the manager on an execution whose status is
\* COMPLETED, ERROR or ABORTED creates no permission request and leaves the
\* status as it was.
C16_RequestOnTerminalFails ==
  \A e \in DOMAIN mgr.executions :
    mgr.executions[e].status \in Terminal =>
      LET c == mgrRequestPermission(Cur, e)
      IN /\ c.m.permissionRequests = mgr.permissionRequests
         /\ c.m.executionPermissions = mgr.executionPermissions
         /\ c.m.executions[e].status = mgr.executions[e].status

\* the permission requests the manager in snapshot c holds for execution e
requestsOf(c, e) ==
  { p \in DOMAIN c.m.permissionRequests :
      c.m.permissionRequests[p].executionId = e }

\* C17: every permission request names one existing execution, and no
\* execution has more than one permission request, also after a further
\* requestPermission call for it.
C17_OneRequestPerExecution ==
  /\ \A p \in DOMAIN mgr.permissionRequests :
       mgr.permissionRequests[p].executionId \in DOMAIN mgr.executions
  /\ \A e \in DOMAIN mgr.executions :
       /\ Cardinality(requestsOf(Cur, e)) <= 1
       /\ Cardinality(requestsOf(mgrRequestPermission(Cur, e), e)) <= 1

\* C18: createExecution for a tool call the session already has an
\* execution for fails and leaves the manager as it is: with the id handed
\* in by the caller the existing record is not replaced, and with the same
\* session and tool handed in again no second execution appears.
C18_DuplicateCreateFails ==
  \A e \in DOMAIN mgr.executions :
    LET x == mgr.executions[e]
    IN /\ LET c == createExecutionWithId(Cur, x.sessionId, x.toolId, e)
          IN c.m = mgr /\ c.ev = events
       /\ LET c == createExecution(Cur, x.sessionId, x.toolId)
          IN c.m = mgr /\ c.ev = events

\* the number of events snapshot c holds beyond those emitted so far
emitted(c) == Len(c.ev) - Len(events)

\* C19: each transition of an execution that the declared graph allows in
\* the current state (create, start, request permission, resolve permission,
\* complete, fail, abort) emits exactly one event.
C19_OneEventPerTransition ==
  /\ \A s \in SessionIds : \A toolId \in Catalog :
       emitted(createExecution(Cur, s, toolId)) = 1
  /\ \A e \in DOMAIN mgr.executions :
       LET status == mgr.executions[e].status
       IN /\ status = "PENDING" => emitted(startExecution(Cur, e)) = 1
          /\ status = "RUNNING" =>
               /\ emitted(completeExecution(Cur, e, "ok")) = 1
               /\ emitted(failExecution(Cur, e, "Tool failed")) = 1
               /\ emitted(mgrRequestPermission(Cur, e)) = 1
          /\ status \notin Terminal => emitted(abortExecution(Cur, e)) = 1
  /\ \A p \in DOMAIN mgr.permissionRequests :
       (/\ ~mgr.permissionRequests[p].resolved
        /\ mgr.executions[mgr.permissionRequests[p].executionId].status
             = "AWAITING_PERMISSION") =>
         \A granted \in BOOLEAN :
           emitted(mgrResolvePermission(Cur, p, granted)) = 1

\* snapshot c holds execution e as COMPLETED and a TOOL_EXECUTION_COMPLETED
\* event for it that was not there before
completionSignalled(c, e) ==
  /\ c.m.executions[e].status = "COMPLETED"
  /\ \E k \in (Len(events) + 1)..Len(c.ev) :
       c.ev[k].type = "TOOL_EXECUTION_COMPLETED" /\ c.ev[k].id = e

\* C20: completing a RUNNING execution yields the COMPLETED status and the
\* execution-completed event whatever becomes of the preview (generated,
\* failed or never finished), for both variants of completeExecution.
C20_PreviewCannotAffectCompletion ==
  \A e \in DOMAIN mgr.executions :
    mgr.executions[e].status = "RUNNING" =>
      /\ completionSignalled(completeExecution(Cur, e, "ok"), e)
      /\ \A outcome \in PreviewOutcomes :
           completionSignalled(
             afterPreview(completeExecutionWithPreview(Cur, e, "ok"),
                          e, outcome), e)

\* C21: abort answers true exactly when a turn is in flight for the session:
\* true when a loop that was not aborted is in flight, true only when some
\* turn of the session has not finished; an abort that answers false changes
\* no state and emits no event, and an abort right after an abort answers
\* false.
C21_AbortReportsInFlight ==
  \A s \in SessionIds :
    LET c == abortOperation(Cur, s)
    IN /\ (\E l \in InFlight(s) : ~Loop(s, l).abortSeen) => c.api.result
       /\ c.api.result => \E l \in LoopIds(s) : Loop(s, l).pc # "done"
       /\ ~c.api.result => [c EXCEPT !.api = Cur.api] = Cur
       /\ c.api.result =>
            LET d == abortOperation([c EXCEPT !.api = Cur.api], s)
            IN ~d.api.result /\ d.ev = c.ev /\ d.m = c.m /\ d.hist = c.hist

\* the abort record of session s: the flag abortOperation sets on the session
\* state, or an entry of the registry of sessionUtils
abortRecord(s) == aborted[s] \/ s \in abortedSessions

\* C22: an abort sets the abort record of its session, the record stays set
\* as long as no further query of the session is accepted, and the step
\* that accepts the next query clears it.
C22_AbortRecordClearedAtAccept ==
  [][ \A s \in SessionIds :
        LET accepted == Len(loops'[s]) = Len(loops[s]) + 1
            abortedNow ==
              /\ Len(events') > Len(events)
              /\ events'[Len(events) + 1].type = "PROCESSING_ABORTED"
              /\ events'[Len(events) + 1].session = s
        IN /\ abortedNow => (aborted'[s] \/ s \in abortedSessions')
           /\ abortRecord(s) /\ ~accepted
                => (aborted'[s] \/ s \in abortedSessions')
           /\ accepted => ~(aborted'[s] \/ s \in abortedSessions') ]_vars

C24_DeliveryInProductionOrder ==
  /\ \A o \in Observers : \A s \in ws.rooms[o] :
       LET reported(m) ==
             /\ m.session = s
             /\ m.type \in {"PROCESSING_STARTED", "PROCESSING_COMPLETED",
                            "PROCESSING_ERROR", "PROCESSING_ABORTED",
                            "PERMISSION_REQUESTED", "PERMISSION_RESOLVED"}
             /\ m.items = {}
           sentOn(e) ==
             /\ e.session = s
             /\ \/ e.type \in {"PROCESSING_STARTED", "PROCESSING_COMPLETED",
                               "PROCESSING_ERROR", "PROCESSING_ABORTED"}
                \/ /\ e.type \in {"PERMISSION_REQUESTED", "PERMISSION_RESOLVED"}
                   /\ e.exec \in DOMAIN mgr.executions
           produced == SelectSeq(events, sentOn)
           received == SelectSeq(ws.inbox[o], reported)
           n == Len(produced) - Len(received)
       IN /\ n >= 0
          /\ \A k \in 1..Len(received) :
               /\ received[k].type = produced[n + k].type
               /\ received[k].id = produced[n + k].id
  /\ \A e \in DOMAIN mgr.executions : \A toolId \in Catalog :
       mgr.executions[e].status = "RUNNING" =>
         LET s == mgr.executions[e].sessionId
             next == ids.exec
             position(c, type, id) ==
               CHOOSE k \in (Len(events) + 1)..Len(c.ev) :
                 c.ev[k].type = type /\ c.ev[k].id = id
             inOrder(c) ==
               position(c, "TOOL_EXECUTION_COMPLETED", e)
                 < position(c, "TOOL_EXECUTION_STARTED", next)
         IN /\ inOrder(createExecution(completeExecution(Cur, e, "ok"),
                                       s, toolId))
            /\ inOrder(afterPreview(
                         createExecution(
                           completeExecutionWithPreview(Cur, e, "ok"),
                           s, toolId),
                         e, "generated"))

\* a turn with one successful tool call ended with an answer
oneToolTurn(s, l) ==
  /\ Loop(s, l).pc \in {"save", "done"}
  /\ Loop(s, l).result.response # Absent
  /\ Len(Loop(s, l).requested) = 1
  /\ Len(Loop(s, l).toolResults) = 1
  /\ Loop(s, l).caught = "none"

C26_JoinSnapshotComplete ==
  [][ \A o \in Observers : \A s \in SessionIds :
        (s \notin ws.rooms[o] /\ s \in ws'.rooms[o]) =>
          LET sent == SubSeq(ws'.inbox[o], Len(ws.inbox[o]) + 1,
                             Len(ws'.inbox[o]))
              inFlight == { e \in DOMAIN mgr.executions :
                              /\ mgr.executions[e].sessionId = s
                              /\ mgr.executions[e].status \notin Terminal }
          IN /\ \A p \in DOMAIN permissionRequests :
                  permissionRequests[p].sessionId = s =>
                    \E k \in 1..Len(sent) :
                      /\ sent[k].type = "PERMISSION_REQUESTED"
                      /\ p \in sent[k].items
             /\ \A e \in inFlight :
                  \E k \in 1..Len(sent) :
                    /\ sent[k].type = "TOOL_EXECUTION_STARTED"
                    /\ sent[k].tool = mgr.executions[e].toolId ]_vars

C27_FailingObserverIsolated ==
  \A s \in SessionIds : \A l \in LoopIds(s) :
    Loop(s, l).pc = "tool" =>
      \A first, second \in ListenerBehaviours :
        LET listeners == << first, second >>
            toolId == Loop(s, l).toolCall.toolId
            c == handleToolExecutionCompleteObserved(Cur, toolId, "ok", s,
                                                     listeners)
            d == handleToolExecutionComplete(Cur, toolId, "ok", s)
        IN /\ ~c.api.thrown
           /\ \A i \in 1..2 : listeners[i] = "returns" => i \in c.api.called
           /\ c.m = d.m /\ c.at = d.at

\* what a session owns: its history, processing flags, turns, executions and
\* permission records with their links, pending requests, running tools and
\* abort record
sessionView(c, t) ==
  [ history     |-> c.hist[t],
    processing  |-> c.proc[t],
    active      |-> t \in c.aps,
    turns       |-> c.lp[t],
    executions  |-> getExecutionsForSession(c, t),
    permissions |-> getPermissionRequestsForSession(c, t),
    links       |-> { << e.id, getPermissionRequestForExecution(c, e.id) >> :
                        e \in getExecutionsForSession(c, t) },
    pending     |-> { c.pr[p] : p \in { q \in DOMAIN c.pr :
                                          c.pr[q].sessionId = t } },
    tools       |-> c.at[t],
    aborted     |-> c.ab[t],
    registry    |-> t \in c.reg ]

\* the outcomes of every operation that can be carried out on session s now
sessionOperations(c, s) ==
  {submitQuery(c, s), abortOperation(c, s), clearSessionData(c, s),
   loadSessionData(c, s, saveSessionData(c, s))}
  \cup { resolvePermission(c, p, granted) :
           p \in { q \in DOMAIN c.pr : c.pr[q].sessionId = s },
           granted \in BOOLEAN }
  \cup { handleToolExecutionStart(c, toolId, s) : toolId \in Catalog }
  \cup { handleToolExecutionComplete(c, toolId, "ok", s) : toolId \in Catalog }
  \cup { handleToolExecutionError(c, toolId, "failed", s) : toolId \in Catalog }
  \cup UNION {
         IF c.lp[s][l].pc = "model"
         THEN { getToolCallReturned(c, s, l, reply) :
                  reply \in {[kind |-> "final", content |-> "text"],
                             [kind |-> "throw"]} }
              \cup { getToolCallReturned(c, s, l,
                       [kind |-> "tool", toolId |-> call[1],
                        args |-> call[2]]) : call \in ModelToolCalls }
         ELSE IF c.lp[s][l].pc = "gen"
         THEN {runnerFinish(c, s, l, "text"),
               runnerReturnError(c, s, l, "Provider error")}
         ELSE IF c.lp[s][l].pc = "tool"
         THEN { toolOperationSettled(c, s, l, ok) : ok \in BOOLEAN }
         ELSE {} : l \in 1..Len(c.lp[s]) }

\* C28: whatever operation is carried out on one session, in whatever state
\* the two sessions are, the other session keeps its history, processing
\* flag, executions, permission requests and abort record.
C28_SessionsIndependent ==
  \A s \in SessionIds : \A t \in SessionIds \ {s} :
    \A c \in sessionOperations(Cur, s) :
      sessionView(c, t) = sessionView(Cur, t)

\* one session has a tool running while the other has a turn in flight
C28_Witness ==
  \E s \in SessionIds : \E t \in SessionIds \ {s} :
    /\ \E e \in getExecutionsForSession(Cur, s) : e.status = "RUNNING"
    /\ \E l \in LoopIds(t) : Loop(t, l).pc \in InFlightPcs

\* C29: loading the data saveSessionData stored for a session gives the
\* manager the same execution records, the same permission records and the
\* same links from executions to permission requests for that session.
C29_SaveLoadRoundTrip ==
  \A s \in SessionIds :
    LET c == loadSessionData(Cur, s, saveSessionData(Cur, s))
    IN /\ getExecutionsForSession(c, s) = getExecutionsForSession(Cur, s)
       /\ getPermissionRequestsForSession(c, s) =
            getPermissionRequestsForSession(Cur, s)
       /\ \A e \in getExecutionsForSession(Cur, s) :
            getPermissionRequestForExecution(c, e.id) =
              getPermissionRequestForExecution(Cur, e.id)

\* C30: resolvePermission on a pending request answers true, resumes the
\* waiting invocation with the decision (the tool runs exactly when it was
\* granted), emits one permission-resolved event naming the request and the
\* decision, and takes the request off the pending list of its session; on
\* an id that is not pending it answers false and changes nothing.
C30_ResolvePermission ==
  \A granted \in BOOLEAN :
    /\ \A p \in DOMAIN permissionRequests :
         LET s == permissionRequests[p].sessionId
             l == permissionRequests[p].resolver
             c == resolvePermission(Cur, p, granted)
             new == SubSeq(c.ev, Len(events) + 1, Len(c.ev))
             resolved == { i \in DOMAIN new :
                             new[i].type = "PERMISSION_RESOLVED" }
         IN /\ c.api.result = TRUE
            /\ (c.lp[s][l].pc = "tool") = granted
            /\ Cardinality(resolved) = 1
            /\ \A i \in resolved :
                 /\ new[i].id = p
                 /\ new[i].session = s
                 /\ new[i].granted = IF granted THEN "granted" ELSE "denied"
            /\ p \in getPermissionRequests(Cur, s)
            /\ p \notin getPermissionRequests(c, s)
    /\ \A p \in (1..ids.perm) \ DOMAIN permissionRequests :
         LET c == resolvePermission(Cur, p, granted)
         IN /\ c.api.result = FALSE
            /\ [c EXCEPT !.api = Cur.api] = Cur

\* a request was denied and is no longer pending, after an earlier id was
\* handed out
C30_Witness ==
  \E i \in DOMAIN events :
    /\ events[i].type = "PERMISSION_RESOLVED"
    /\ events[i].granted = "denied"
    /\ events[i].id \notin DOMAIN permissionRequests

\* C31: when a query is accepted, the history the first model call of the
\* turn will see ends with that query as a user text, and the acceptance
\* added the query at most once and nothing else.
C31_QueryLastAtFirstCall ==
  [][\A s \in SessionIds :
       Len(loops'[s]) = Len(loops[s]) + 1 =>
         LET h == conversationHistory'[s]
             q == loops'[s][Len(loops'[s])].query
         IN /\ Len(h) > 0
            /\ h[Len(h)] = userText(q)
            /\ \/ h = conversationHistory[s]
               \/ h = Append(conversationHistory[s], userText(q))]_vars

\* C32: a turn that returned its result lists in it every tool invocation
\* the model asked for during the turn, in the order they were made.
C32_ResultListsEveryInvocation ==
  \A s \in SessionIds : \A l \in LoopIds(s) :
    LET lp == Loop(s, l)
    IN (lp.pc \in {"save", "done"} /\ lp.result.response # Absent) =>
         lp.toolResults = lp.requested

\* C33: a turn in which the model asked for one tool call that succeeded and
\* then answered returns the iteration count 1.
C33_OneToolTurnOneIteration ==
  \A s \in SessionIds : \A l \in LoopIds(s) :
    oneToolTurn(s, l) => Loop(s, l).iterations = 1

\* the loop-level events of a session that end a turn
loopTerminalEvents(s) ==
  { i \in 1..Len(events) :
      /\ events[i].session = s
      /\ events[i].type \in {"PROCESSING_COMPLETED", "PROCESSING_ERROR",
                             "PROCESSING_ABORTED"} }

\* C34: the events of a session hold one loop-started event per accepted
\* query, never more terminal loop-level events than loop-started events,
\* and exactly as many once every turn of the session has ended.
C34_OneStartOneTerminal ==
  \A s \in SessionIds :
    LET started == { i \in 1..Len(events) :
                       /\ events[i].session = s
                       /\ events[i].type = "PROCESSING_STARTED" }
    IN /\ Cardinality(started) = Len(loops[s])
       /\ Cardinality(loopTerminalEvents(s)) <= Cardinality(started)
       /\ (\A l \in LoopIds(s) : Loop(s, l).pc \in {"save", "done"}) =>
            Cardinality(loopTerminalEvents(s)) = Cardinality(started)

\* C35: when the model asks a turn for a tool and the operation of that tool
\* then finishes or fails, the execution created for this invocation becomes
\* terminal and no other execution changes its status, whatever entries the
\* active-tool list of the session still holds.
C35_NotificationSettlesOwnExecution ==
  \A s \in SessionIds : \A l \in LoopIds(s) :
    Loop(s, l).pc = "model" =>
      \A toolId \in Catalog : \A ok \in BOOLEAN :
        LET e  == ids.exec
            c1 == getToolCallReturned(Cur, s, l,
                    [kind |-> "tool", toolId |-> toolId, args |-> "good"])
            c2 == toolOperationSettled(c1, s, l, ok)
        IN c1.lp[s][l].pc = "tool" =>
             /\ c2.m.executions[e].status \in Terminal
             /\ \A other \in DOMAIN c1.m.executions \ {e} :
                  c2.m.executions[other].status =
                    c1.m.executions[other].status

turnEnded(s, l) ==
  /\ Loop(s, l).pc \in {"save", "done"} \/ Loop(s, l).abortSeen
  /\ Loop(s, l).pc # "tool"

\* C37: once every turn of a session has ended, no execution of the session
\* is PENDING, RUNNING or AWAITING_PERMISSION.
C37_NoOpenExecutionAfterTurn ==
  \A s \in SessionIds :
    (\A l \in LoopIds(s) : turnEnded(s, l)) =>
      \A e \in getExecutionsForSession(Cur, s) : e.status \in Terminal

\* C38: after an abort that answered true, isSessionAborted is true for the
\* session.
C38_RegistryHoldsAbort ==
  \A s \in SessionIds :
    LET c == abortOperation(Cur, s)
    IN c.api.result => isSessionAborted(c, s)

\* observer o was told that permission request p of session s is pending, by
\* the live event or by the snapshot sent when it joined
toldOfRequest(o, s, p) ==
  \E i \in 1..Len(ws.inbox[o]) :
    /\ ws.inbox[o][i].type = "PERMISSION_REQUESTED"
    /\ ws.inbox[o][i].session = s
    /\ ws.inbox[o][i].id = p \/ p \in ws.inbox[o][i].items

\* C39: an observer in the room of a session was told of every request an
\* invocation of the session waits on, and was told of the resolution of
\* every request it was told of that is no longer pending.
C39_PermissionsAnnounced ==
  \A o \in Observers : \A s \in ws.rooms[o] :
    \A p \in mgr.sessionPermissions[s] :
      /\ p \in DOMAIN permissionRequests => toldOfRequest(o, s, p)
      /\ (toldOfRequest(o, s, p) /\ p \notin DOMAIN permissionRequests) =>
           \E i \in 1..Len(ws.inbox[o]) :
             /\ ws.inbox[o][i].type = "PERMISSION_RESOLVED"
             /\ ws.inbox[o][i].session = s
             /\ ws.inbox[o][i].id = p

\* C40: every id in a session's execution set and permission set names a
\* stored record of that session, and every link from an execution to a
\* permission request names a stored execution and a stored request of
\* that execution.
C40_ManagerMapsConsistent ==
  /\ \A s \in SessionIds :
       /\ \A e \in mgr.sessionExecutions[s] :
            /\ e \in DOMAIN mgr.executions
            /\ mgr.executions[e].sessionId = s
       /\ \A p \in mgr.sessionPermissions[s] :
            /\ p \in DOMAIN mgr.permissionRequests
            /\ mgr.permissionRequests[p].sessionId = s
  /\ \A e \in DOMAIN mgr.executionPermissions :
       /\ e \in DOMAIN mgr.executions
       /\ mgr.executionPermissions[e] \in DOMAIN mgr.permissionRequests
       /\ mgr.permissionRequests[mgr.executionPermissions[e]].executionId = e

\* a request that had been resolved is open and linked again, restored by
\* loadSessionData from data saved before the resolution
C40_Witness ==
  \E e \in DOMAIN mgr.executionPermissions :
    LET p == mgr.executionPermissions[e]
    IN /\ p \in DOMAIN mgr.permissionRequests
       /\ ~mgr.permissionRequests[p].resolved
       /\ \E i \in 1..Len(events) :
            events[i].type = "PERMISSION_RESOLVED" /\ events[i].id = p

====
